---- MODULE Spec2Model ----
(***************************************************************************)
(* Model of movietrend's main.py: the two torrent providers                *)
(* (get_torrents, get_yts_torrents), the catalog fetchers, next-episode    *)
(* resolution (fetch_next_episode) and the play_content session driven     *)
(* from main_menu.                                                         *)
(*                                                                         *)
(* Two specifications:                                                     *)
(*   Spec       the interactive session: main_menu picks an item and       *)
(*              play_content runs step by step (one action per network     *)
(*              call, prompt or launch);                                   *)
(*   SpecCalls  the functions of main.py applied to inputs drawn from      *)
(*              bounded sets (call = the input, ret = what came back).     *)
(***************************************************************************)
EXTENDS Integers, Sequences, FiniteSets, TLC

VARIABLES pc, item, catalog, valid_seasons, episodes, season, episode, torrents,
          selected_torrent, launchResult, nextEp, primaryCount, ytsCalls,
          exc, msg, answer, launches, query, launchedMagnet, call, ret

vars == <<pc, item, catalog, valid_seasons, episodes, season, episode, torrents,
          selected_torrent, launchResult, nextEp, primaryCount, ytsCalls,
          exc, msg, answer, launches, query, launchedMagnet, call, ret>>

sessionVars == <<pc, item, catalog, valid_seasons, episodes, season, episode,
                 torrents,
                 selected_torrent, launchResult, nextEp, primaryCount,
                 ytsCalls, exc, msg, answer, launches, query, launchedMagnet>>

-----------------------------------------------------------------------------
(* Bounds *)

\* longest provider payload (records of an Apibay reply, movies of a YTS reply)
MaxRecords == 2
\* most torrents listed under one YTS movie
MaxYtsTorrents == 2
\* seasons of a show are numbered 0..MaxSeason (0 is Trakt's "specials")
MaxSeason == 1
\* episodes of a season are numbered within 1..MaxEp
MaxEp == 2
\* episode numbers of the lists fetch_next_episode is applied to on its own
MaxCallEp == 3
\* records of the longest provider payload the five-entry cut is applied to
MaxLong == 6
\* longest candidate name season_episode_match is applied to
MaxNameLen == 6

-----------------------------------------------------------------------------
(* Python values *)

\* Python's None for optional values; Some(x) wraps a present value
None == <<>>
Some(x) == <<x>>
\* marker of a key that is missing from a JSON object
Absent == "<absent>"
\* a local variable that is not bound yet
Unbound == -1

MIN_SEEDERS_THRESHOLD == 5

\* what a function call does: it returns a value or raises an exception
Return(v) == [raised |-> "", value |-> v]
Raise(e) == [raised |-> e, value |-> <<>>]

-----------------------------------------------------------------------------
(* HTTP layer: what requests.get / raise_for_status / json() do with a reply *)

ReplyKinds == {"OK", "ConnectionError", "Timeout", "HTTP429", "HTTP500",
               "HTTP404", "BadJSON"}

\* the exception the requests library raises for a reply (none for "OK")
RaisedByRequests(kind) ==
    CASE kind = "ConnectionError" -> "ConnectionError"
      [] kind = "Timeout" -> "Timeout"
      [] kind \in {"HTTP429", "HTTP500", "HTTP404"} -> "HTTPError"
      [] kind = "BadJSON" -> "JSONDecodeError"
      [] OTHER -> ""

\* the subclasses of requests.exceptions.RequestException
RequestExceptionNarrow == {"ConnectionError"}
RequestException == {"ConnectionError", "Timeout", "HTTPError", "JSONDecodeError"}

\* the replies a catalog fetch of the session meets: the payload, or a failure
\* (every failure kind ends in the same except clause)
FetchKinds == {"OK", "Timeout"}

\* try: ... except requests.exceptions.RequestException: return []
\* applied to a reply that is not "OK"
OnRequestFailure(kind) ==
    IF RaisedByRequests(kind) \in RequestException
    THEN Return(<<>>)
    ELSE Raise(RaisedByRequests(kind))

\* number of requests.get calls one provider or catalog call makes for a
\* reply of this kind: each function calls requests.get once, outside any loop
HttpAttemptsRetrying(kind) == IF kind \in {"HTTP429", "HTTP500"} THEN 3 ELSE 1
HttpAttempts(kind) == 1

-----------------------------------------------------------------------------
(* Primary provider: get_torrents (apibay.org) *)

\* Python's int() on the seeders strings of the records below (Apibay sends
\* numbers as strings): the number, or -1 for ValueError
int(s) ==
    CASE s = "0" -> 0
      [] s = "4" -> 4
      [] s = "5" -> 5
      [] s = "7" -> 7
      [] s = "9" -> 9
      [] OTHER -> -1

\* t.get("seeders", 0)
SeedersOf(t) == IF t.seeders = Absent THEN "0" ELSE t.seeders

\* raw records of an Apibay payload; Absent marks a missing key
ApibayRecords ==
    [id : {"0", "1"}, seeders : {"0"}, info_hash : {"h0"}, name : {"n"}]
    \cup [id : {"1"}, seeders : {"4", "5", "9", "x", Absent},
          info_hash : {"h1"}, name : {"n"}]
    \cup [id : {"1"}, seeders : {"5"}, info_hash : {"h3"}, name : {"n.2160p"}]
    \cup [id : {"1"}, seeders : {"4", "9"}, info_hash : {Absent}, name : {"n"}]
    \cup [id : {"1"}, seeders : {"9"}, info_hash : {"h2"}, name : {Absent}]

RECURSIVE SeqsUpTo(_, _)
\* all sequences over S of length at most n
SeqsUpTo(S, n) ==
    IF n = 0 THEN {<<>>}
    ELSE LET shorter == SeqsUpTo(S, n - 1)
         IN shorter \cup {Append(q, x) : q \in shorter, x \in S}

ApibayReplies ==
    [kind : ReplyKinds \ {"OK"}, payload : {<<>>}]
    \cup [kind : {"OK"}, payload : SeqsUpTo(ApibayRecords, MaxRecords)]

\* the filter of the list comprehension
IsViableStrict(n) == n > MIN_SEEDERS_THRESHOLD
IsViable(n) == n >= MIN_SEEDERS_THRESHOLD

ApibayCandidate(t) ==
    [magnet |-> <<"magnet:?xt=urn:btih:", t.info_hash, "&dn=", t.name>>,
     source |-> "Apibay",
     seeders |-> int(SeedersOf(t)),
     name |-> t.name]

RECURSIVE viable_torrents(_)
\* the list comprehension, record by record in payload order: the filter
\* int(t.get("seeders", 0)) >= MIN_SEEDERS_THRESHOLD is evaluated first, then
\* t['info_hash'] and t['name'] of a record that passes it
viable_torrents(ts) ==
    IF ts = <<>> THEN Return(<<>>)
    ELSE LET t == Head(ts)
             n == int(SeedersOf(t))
             rest == viable_torrents(Tail(ts))
         IN IF n < 0 THEN Raise("ValueError")
            ELSE IF ~IsViable(n) THEN rest
            ELSE IF t.info_hash = Absent \/ t.name = Absent THEN Raise("KeyError")
            ELSE IF rest.raised # "" THEN rest
            ELSE Return(<<ApibayCandidate(t)>> \o rest.value)

RECURSIVE InsertBySeeders(_, _)
\* c goes after every entry with at least as many seeders (stable)
InsertBySeeders(sorted, c) ==
    IF sorted = <<>> THEN <<c>>
    ELSE IF Head(sorted).seeders >= c.seeders
         THEN <<Head(sorted)>> \o InsertBySeeders(Tail(sorted), c)
         ELSE <<c>> \o sorted

Unsorted(cs) == cs
RECURSIVE SortBySeedersDesc(_)
\* list.sort(key=lambda x: x["seeders"], reverse=True): stable, descending
SortBySeedersDesc(cs) ==
    IF cs = <<>> THEN <<>>
    ELSE InsertBySeeders(SortBySeedersDesc(SubSeq(cs, 1, Len(cs) - 1)), cs[Len(cs)])

\* cs[:6]
FirstSix(cs) == SubSeq(cs, 1, IF Len(cs) < 6 THEN Len(cs) ELSE 6)

\* cs[:5]
FirstFive(cs) == SubSeq(cs, 1, IF Len(cs) < 5 THEN Len(cs) ELSE 5)

get_torrents(reply) ==
    IF reply.kind # "OK" THEN OnRequestFailure(reply.kind)
    ELSE IF reply.payload = <<>> \/ reply.payload[1].id = "0" THEN Return(<<>>)
    ELSE LET v == viable_torrents(reply.payload)
         IN IF v.raised # "" THEN v
            ELSE Return(FirstFive(SortBySeedersDesc(v.value)))

-----------------------------------------------------------------------------
(* Secondary provider: get_yts_torrents (yts.mx, movies only) *)

YtsTorrents == [seeds : {4, 5, 9}, url : {"u"}, quality : {"1080p"}]

YtsMovies == [title : {"T", Absent}, torrents : SeqsUpTo(YtsTorrents, MaxYtsTorrents)]

YtsReplies ==
    [kind : ReplyKinds \ {"OK"}, payload : {<<>>}]
    \cup [kind : {"OK"}, payload : SeqsUpTo(YtsMovies, MaxRecords)]

YtsCandidate(movie, torrent) ==
    [magnet |-> <<torrent.url>>,
     source |-> "YTS",
     seeders |-> torrent.seeds,
     name |-> <<movie.title, torrent.quality>>]

RECURSIVE yts_movie_torrents(_, _)
\* the inner loop over movie.get("torrents", []): movie['title'] is read only
\* for a torrent whose seeds reach the threshold
yts_movie_torrents(movie, ts) ==
    IF ts = <<>> THEN Return(<<>>)
    ELSE LET rest == yts_movie_torrents(movie, Tail(ts))
         IN IF ~IsViable(Head(ts).seeds) THEN rest
            ELSE IF movie.title = Absent THEN Raise("KeyError")
            ELSE IF rest.raised # "" THEN rest
            ELSE Return(<<YtsCandidate(movie, Head(ts))>> \o rest.value)

RECURSIVE yts_torrents(_)
\* the outer loop over the movies of the payload
yts_torrents(movies) ==
    IF movies = <<>> THEN Return(<<>>)
    ELSE LET first == yts_movie_torrents(Head(movies), Head(movies).torrents)
             rest == yts_torrents(Tail(movies))
         IN IF first.raised # "" THEN first
            ELSE IF rest.raised # "" THEN rest
            ELSE Return(first.value \o rest.value)

get_yts_torrents(reply) ==
    IF reply.kind # "OK" THEN OnRequestFailure(reply.kind)
    ELSE IF reply.payload = <<>> THEN Return(<<>>)
    ELSE LET v == yts_torrents(reply.payload)
         IN IF v.raised # "" THEN v
            ELSE Return(FirstFive(SortBySeedersDesc(v.value)))

-----------------------------------------------------------------------------
(* Catalog (Trakt): seasons and episodes of a show *)

\* first_aired values: None, or a date (dates compare as the code compares
\* the ISO strings)
Dates == {1, 2}

SeasonNumbers == 0 .. MaxSeason

\* a season as /shows/{id}/seasons lists it
SeasonRecords(n) ==
    [number : {n}, episode_count : {0}, first_aired : {Some(1)}]
    \cup [number : {n}, episode_count : {MaxEp},
          first_aired : {None} \cup {Some(d) : d \in Dates}]

RECURSIVE SeasonLists(_)
\* the seasons lists over seasons 0..n, in number order, each season present
\* or not
SeasonLists(n) ==
    IF n < 0 THEN {<<>>}
    ELSE LET before == SeasonLists(n - 1)
         IN before \cup {Append(l, r) : l \in before, r \in SeasonRecords(n)}

RECURSIVE Ascending(_, _)
\* the members of the set of numbers S that are at least lo, ascending
Ascending(S, lo) ==
    IF \A x \in S : x < lo THEN <<>>
    ELSE LET m == CHOOSE x \in S : x >= lo /\ \A y \in S : y >= lo => x <= y
         IN <<m>> \o Ascending(S, m + 1)

\* the episode lists /shows/{id}/seasons/{n} can return: episode numbers
\* ascending, possibly with gaps, possibly none
EpisodeListsUpTo(n) == {Ascending(S, 1) : S \in SUBSET (1 .. n)}
EpisodeLists == EpisodeListsUpTo(MaxEp)

HasSeason(seasons, n) == \E i \in 1 .. Len(seasons) : seasons[i].number = n

\* a show in the catalog: its seasons list and the episode list of each
\* season; a season the seasons list does not offer for play has no episodes
Catalogs ==
    {c \in [seasons : SeasonLists(MaxSeason),
            episodes : [SeasonNumbers -> EpisodeLists]] :
        \A n \in SeasonNumbers :
            (~\E i \in 1 .. Len(c.seasons) :
                c.seasons[i].number = n /\ c.seasons[i].episode_count > 0)
            => c.episodes[n] = <<>>}

\* fetch_show_seasons / fetch_season_episodes: the decoded payload, or [] when
\* requests raises
fetch_catalog(kind, payload) ==
    IF kind = "OK" THEN Return(payload) ELSE OnRequestFailure(kind)

RECURSIVE Numbers(_)
\* [s['number'] for s in q]
Numbers(q) == IF q = <<>> THEN <<>> ELSE <<Head(q).number>> \o Numbers(Tail(q))

InSeq(x, q) == \E i \in 1 .. Len(q) : q[i] = x

\* max(valid_seasons, key=first_aired)["number"] over the seasons that have a
\* first_aired and episodes; Python's max keeps the first of equal maxima
TrendingSeason(seasons) ==
    LET Aired(s) == s.first_aired # None /\ s.episode_count > 0
        valid == SelectSeq(seasons, Aired)
    IN IF valid = <<>> THEN None
       ELSE LET i == CHOOSE i \in 1 .. Len(valid) :
                        /\ \A j \in 1 .. Len(valid) :
                               valid[j].first_aired[1] <= valid[i].first_aired[1]
                        /\ \A j \in 1 .. (i - 1) :
                               valid[j].first_aired[1] < valid[i].first_aired[1]
            IN Some(valid[i].number)

\* the items fetch_trending_content / search_content build
ShowItem(seasons) ==
    [media_type |-> "show", has_trending_season |-> TRUE,
     trending_season |-> TrendingSeason(seasons)]
MovieItem ==
    [media_type |-> "movie", has_trending_season |-> TRUE,
     trending_season |-> None]

\* item.get("trending_season", 1)
ItemTrendingSeason(it) ==
    IF it.has_trending_season THEN it.trending_season ELSE Some(1)

\* every listed season, with or without episodes
ValidSeasonsUnfiltered(seasons) == Numbers(seasons)
\* [s for s in seasons if s.get("episode_count", 0) > 0], as season numbers
ValidSeasons(seasons) ==
    LET HasEpisodes(s) == s.episode_count > 0
    IN Numbers(SelectSeq(seasons, HasEpisodes))

\* [c[1] for c in season_choices if c[1] == trending_season]
DefaultSeasonMatches(choices, trending) ==
    LET IsTrending(n) == Some(n) = trending
    IN SelectSeq(choices, IsTrending)

-----------------------------------------------------------------------------
(* fetch_next_episode *)

\* on the fetched episode list (numbers) and seasons list
next_episode_unchecked(eps, seasons, current_season, current_episode) ==
    IF eps = <<>> THEN None
    ELSE IF InSeq(current_episode + 1, eps)
         THEN <<current_season, current_episode + 1>>
    ELSE IF HasSeason(seasons, current_season + 1)
         THEN <<current_season + 1, 1>>
    ELSE None
next_episode(eps, seasons, current_season, current_episode) ==
    IF eps = <<>> THEN None
    ELSE IF InSeq(current_episode + 1, eps)
         THEN <<current_season, current_episode + 1>>
    ELSE IF \E i \in 1 .. Len(seasons) :
                seasons[i].number = current_season + 1
                /\ seasons[i].episode_count > 0
         THEN <<current_season + 1, 1>>
    ELSE None

\* with the two catalog fetches it makes (the second only when needed; its
\* result is not read otherwise)
fetch_next_episode(c, epKind, seasonsKind, current_season, current_episode) ==
    next_episode(fetch_catalog(epKind, c.episodes[current_season]).value,
                 fetch_catalog(seasonsKind, c.seasons).value,
                 current_season, current_episode)

-----------------------------------------------------------------------------
(* The session: main_menu and play_content *)

NoItem == [media_type |-> "none", has_trending_season |-> TRUE,
           trending_season |-> None]
NoCatalog == [seasons |-> <<>>, episodes |-> [n \in SeasonNumbers |-> <<>>]]
\* no query built yet: args are the (season, episode) passed to get_torrents,
\* text is the query string
NoQuery == [args |-> <<None, None>>, text |-> <<>>]
NoCall == [fn |-> "none", arg |-> <<>>]
NoRet == [out |-> Return(<<>>), attempts |-> 0]

Init ==
    /\ pc = "menu"
    /\ item = NoItem
    /\ catalog = NoCatalog
    /\ valid_seasons = <<>>
    /\ episodes = <<>>
    /\ season = Unbound
    /\ episode = Unbound
    /\ torrents = <<>>
    /\ selected_torrent = None
    /\ launchResult = "none"
    /\ nextEp = None
    /\ primaryCount = Unbound
    /\ ytsCalls = 0
    /\ exc = ""
    /\ msg = ""
    /\ answer = ""
    /\ launches = 0
    /\ query = NoQuery
    /\ launchedMagnet = None
    /\ call = NoCall
    /\ ret = NoRet

\* Prompt.ask(..., choices=["y", "n"], default=d): what the user types; Enter
\* alone ("") gives the default
PromptInputs == {"", "y", "n"}
Ask(input, default) == IF input = "" THEN default ELSE input

\* the defaults of the three y/n prompts of play_content
RetryDefault == "y"
NextPlayedDefault == "y"
NextFailedDefaultYes == "y"
NextFailedDefault == "n"

\* the title of the selected item
Title == "T"

\* Python truth value of an optional int: None and 0 are false
Truthy(x) == x # None /\ x[1] # 0

DigitChar(d) ==
    CASE d = 0 -> "0" [] d = 1 -> "1" [] d = 2 -> "2" [] d = 3 -> "3"
      [] d = 4 -> "4" [] d = 5 -> "5" [] d = 6 -> "6" [] d = 7 -> "7"
      [] d = 8 -> "8" [] OTHER -> "9"

RECURSIVE Digits(_)
\* the decimal digits of a natural number
Digits(n) ==
    IF n < 10 THEN <<DigitChar(n)>>
    ELSE Digits(n \div 10) \o <<DigitChar(n % 10)>>

\* f"{n:02d}": at least two digits, zero-padded
Format02d(n) == IF n < 10 THEN <<"0">> \o Digits(n) ELSE Digits(n)

\* the query string get_torrents builds from its arguments (a sequence of
\* pieces: the title, then the characters of the suffix)
BuildQuery(title, s, e) ==
    IF Truthy(s) /\ Truthy(e)
    THEN <<title, " ", "S">> \o Format02d(s[1]) \o <<"E">> \o Format02d(e[1])
    ELSE IF Truthy(s)
    THEN <<title, " ", "S">> \o Format02d(s[1])
    ELSE <<title>>

\* get_torrents(title, season, episode) was called: its arguments and the
\* query string it sent
QueryOf(s, e) == [args |-> <<s, e>>, text |-> BuildQuery(Title, s, e)]

\* torrent_choices: one entry per torrent of the batch, in batch order, then
\* the "None" entry
torrent_choices(ts) == [i \in 1 .. Len(ts) |-> Some(ts[i])] \o <<None>>

\* `if selected_torrent:` after the torrent prompt
AfterPromptAlwaysLaunch(selected, launchPc, nonePc) == launchPc
AfterPrompt(selected, launchPc, nonePc) ==
    IF selected # None THEN launchPc ELSE nonePc

\* selected_torrent["magnet"], the argument peerflix gets
MagnetOf(selected) == IF selected = None THEN None ELSE Some(selected[1].magnet)

LaunchResults == {"success", "FileNotFoundError", "CalledProcessError"}

\* an exception nobody catches leaves play_content and main_menu
Crash(e) ==
    /\ pc' = "crashed"
    /\ exc' = e

\* main_menu: the user picks a movie from the ranked list
MainMenuSelectMovie ==
    /\ pc = "menu"
    /\ pc' = "movie_search"
    /\ item' = MovieItem
    /\ UNCHANGED <<catalog, valid_seasons, episodes, season, episode, torrents,
                   selected_torrent, launchResult, nextEp, primaryCount,
                   ytsCalls, exc, msg, call, ret,
                   answer, launches, query, launchedMagnet>>

\* main_menu: the user picks a show; its item was built from the seasons
\* fetch_show_seasons returned when the list was fetched
MainMenuSelectShow ==
    /\ pc = "menu"
    /\ \E c \in Catalogs, kind \in FetchKinds :
          /\ catalog' = c
          /\ item' = ShowItem(fetch_catalog(kind, c.seasons).value)
    /\ pc' = "show_seasons"
    /\ UNCHANGED <<valid_seasons, episodes, season, episode, torrents,
                   selected_torrent, launchResult, nextEp, primaryCount,
                   ytsCalls, exc, msg, call, ret,
                   answer, launches, query, launchedMagnet>>

\* main_menu: choice "3"
MainMenuExit ==
    /\ pc = "menu"
    /\ pc' = "exit"
    /\ UNCHANGED <<item, catalog, valid_seasons, episodes, season, episode,
                   torrents, selected_torrent, launchResult, nextEp,
                   primaryCount, ytsCalls, exc, msg, call, ret,
                   answer, launches, query, launchedMagnet>>

\* play_content returned: back to the menu loop, its locals are gone
ReturnToMenu ==
    /\ pc = "done"
    /\ pc' = "menu"
    /\ item' = NoItem
    /\ catalog' = NoCatalog
    /\ valid_seasons' = <<>>
    /\ episodes' = <<>>
    /\ season' = Unbound
    /\ episode' = Unbound
    /\ torrents' = <<>>
    /\ selected_torrent' = None
    /\ launchResult' = "none"
    /\ nextEp' = None
    /\ primaryCount' = Unbound
    /\ ytsCalls' = 0
    /\ exc' = ""
    /\ msg' = ""
    /\ answer' = ""
    /\ launches' = 0
    /\ query' = NoQuery
    /\ launchedMagnet' = None
    /\ UNCHANGED <<call, ret>>

(* movie flow *)

\* where the movie flow goes after get_torrents(title) returned ts
MovieAfterApibayNoFallback(ts) == IF ts # <<>> THEN "movie_prompt" ELSE "done"
MovieAfterApibay(ts) == IF ts # <<>> THEN "movie_prompt" ELSE "movie_yts"

MovieSearchApibay ==
    /\ pc = "movie_search"
    /\ \E reply \in ApibayReplies :
          LET r == get_torrents(reply)
          IN IF r.raised # ""
             THEN /\ Crash(r.raised)
                  /\ UNCHANGED <<torrents, primaryCount>>
             ELSE /\ torrents' = r.value
                  /\ primaryCount' = Len(r.value)
                  /\ pc' = MovieAfterApibay(r.value)
                  /\ exc' = exc
    /\ query' = QueryOf(None, None)
    /\ launches' = 0
    /\ launchedMagnet' = None
    /\ UNCHANGED <<item, catalog, valid_seasons, episodes, season, episode,
                   selected_torrent, launchResult, nextEp, ytsCalls, msg,
                   call, ret, answer>>

\* inquirer.List over the batch plus the "None (Try YTS)" entry
MoviePrompt ==
    /\ pc = "movie_prompt"
    /\ \E i \in 1 .. Len(torrent_choices(torrents)) :
          /\ selected_torrent' = torrent_choices(torrents)[i]
          /\ pc' = AfterPrompt(selected_torrent', "movie_launch", "movie_yts")
    /\ UNCHANGED <<item, catalog, valid_seasons, episodes, season, episode,
                   torrents, launchResult, nextEp, primaryCount, ytsCalls, exc,
                   msg, call, ret,
                   answer, launches, query, launchedMagnet>>

\* where the movie flow goes after subprocess.run on an Apibay torrent
MovieAfterLaunchAlwaysYts(res) == IF res = "success" THEN "done" ELSE "movie_yts"
MovieAfterLaunch(res) == IF res = "FileNotFoundError" THEN "movie_yts" ELSE "done"

MovieLaunch ==
    /\ pc = "movie_launch"
    /\ \E res \in LaunchResults :
          /\ launchResult' = res
          /\ pc' = MovieAfterLaunch(res)
          /\ msg' = IF res = "success" THEN "played" ELSE res
    /\ launches' = launches + 1
    /\ launchedMagnet' = MagnetOf(selected_torrent)
    /\ UNCHANGED <<item, catalog, valid_seasons, episodes, season, episode,
                   torrents, selected_torrent, nextEp, primaryCount, ytsCalls,
                   exc, call, ret,
                   answer, query>>

MovieSearchYts ==
    /\ pc = "movie_yts"
    /\ ytsCalls' = ytsCalls + 1
    /\ \E reply \in YtsReplies :
          LET r == get_yts_torrents(reply)
          IN IF r.raised # ""
             THEN /\ Crash(r.raised)
                  /\ UNCHANGED <<torrents, msg>>
             ELSE /\ torrents' = r.value
                  /\ pc' = IF r.value # <<>> THEN "movie_yts_prompt" ELSE "done"
                  /\ msg' = IF r.value # <<>> THEN msg ELSE "no_viable_torrents"
                  /\ exc' = exc
    /\ launches' = 0
    /\ launchedMagnet' = None
    /\ UNCHANGED <<item, catalog, valid_seasons, episodes, season, episode,
                   selected_torrent, launchResult, nextEp, primaryCount, call,
                   ret, answer, query>>

\* inquirer.List over the YTS batch plus the "None" entry
MovieYtsPrompt ==
    /\ pc = "movie_yts_prompt"
    /\ \E i \in 1 .. Len(torrent_choices(torrents)) :
          /\ selected_torrent' = torrent_choices(torrents)[i]
          /\ pc' = AfterPrompt(selected_torrent', "movie_yts_launch", "done")
          /\ msg' = IF pc' = "done" THEN "no_viable_torrents" ELSE msg
    /\ UNCHANGED <<item, catalog, valid_seasons, episodes, season, episode,
                   torrents, launchResult, nextEp, primaryCount, ytsCalls, exc,
                   call, ret,
                   answer, launches, query, launchedMagnet>>

MovieYtsLaunch ==
    /\ pc = "movie_yts_launch"
    /\ \E res \in LaunchResults :
          /\ launchResult' = res
          /\ msg' = CASE res = "success" -> "played"
                      [] res = "FileNotFoundError" -> "no_viable_torrents"
                      [] OTHER -> res
    /\ pc' = "done"
    /\ launches' = launches + 1
    /\ launchedMagnet' = MagnetOf(selected_torrent)
    /\ UNCHANGED <<item, catalog, valid_seasons, episodes, season, episode,
                   torrents, selected_torrent, nextEp, primaryCount, ytsCalls,
                   exc, call, ret,
                   answer, query>>

(* show flow *)

\* top of the outer loop: fetch_show_seasons, the valid-season filter and the
\* default of the season prompt
ShowFetchSeasons ==
    /\ pc = "show_seasons"
    /\ \E kind \in FetchKinds :
          LET valid == ValidSeasons(fetch_catalog(kind, catalog.seasons).value)
          IN IF valid = <<>>
             THEN /\ pc' = "done"
                  /\ msg' = "no_valid_seasons"
                  /\ UNCHANGED <<valid_seasons, exc>>
             ELSE IF DefaultSeasonMatches(valid, ItemTrendingSeason(item)) = <<>>
             THEN /\ Crash("IndexError")
                  /\ valid_seasons' = valid
                  /\ msg' = msg
             ELSE /\ pc' = "season_prompt"
                  /\ valid_seasons' = valid
                  /\ UNCHANGED <<exc, msg>>
    \* retry of the previous pass of the outer loop is dead
    /\ answer' = ""
    /\ UNCHANGED <<item, catalog, episodes, season, episode, torrents,
                   selected_torrent, launchResult, nextEp, primaryCount,
                   ytsCalls, call, ret,
                   launches, query, launchedMagnet>>

SeasonPrompt ==
    /\ pc = "season_prompt"
    /\ \E i \in 1 .. Len(valid_seasons) : season' = valid_seasons[i]
    /\ pc' = "show_episodes"
    /\ UNCHANGED <<item, catalog, valid_seasons, episodes, episode, torrents,
                   selected_torrent, launchResult, nextEp, primaryCount,
                   ytsCalls, exc, msg, call, ret,
                   answer, launches, query, launchedMagnet>>

ShowFetchEpisodes ==
    /\ pc = "show_episodes"
    /\ \E kind \in FetchKinds :
          /\ episodes' = fetch_catalog(kind, catalog.episodes[season]).value
          /\ pc' = IF episodes' = <<>> THEN "retry_prompt" ELSE "episode_prompt"
    /\ UNCHANGED <<item, catalog, valid_seasons, season, episode, torrents,
                   selected_torrent, launchResult, nextEp, primaryCount,
                   ytsCalls, exc, msg, call, ret,
                   answer, launches, query, launchedMagnet>>

\* where the outer loop goes on the answer to the retry prompt: `continue`
\* (back to the seasons fetch) or return
AfterRetryKeepSeason(retry) == IF retry = "y" THEN "show_search" ELSE "done"
AfterRetry(retry) == IF retry = "y" THEN "show_seasons" ELSE "done"

\* "Try another season? (y/n)", default "y"
RetryPrompt ==
    /\ pc = "retry_prompt"
    /\ \E input \in PromptInputs :
          LET retry == Ask(input, RetryDefault)
          IN /\ answer' = input
             /\ pc' = AfterRetry(retry)
    /\ UNCHANGED <<item, catalog, valid_seasons, episodes, season, episode,
                   torrents, selected_torrent, launchResult, nextEp,
                   primaryCount, ytsCalls, exc, msg, call, ret,
                   launches, query, launchedMagnet>>

EpisodePrompt ==
    /\ pc = "episode_prompt"
    /\ \E i \in 1 .. Len(episodes) : episode' = episodes[i]
    /\ pc' = "show_search"
    /\ UNCHANGED <<item, catalog, valid_seasons, episodes, season, torrents,
                   selected_torrent, launchResult, nextEp, primaryCount,
                   ytsCalls, exc, msg, call, ret,
                   answer, launches, query, launchedMagnet>>

\* top of the inner loop: get_torrents(title, season, episode)
ShowSearch ==
    /\ pc = "show_search"
    /\ \E reply \in ApibayReplies :
          LET r == get_torrents(reply)
          IN IF r.raised # ""
             THEN /\ Crash(r.raised)
                  /\ UNCHANGED torrents
             ELSE /\ torrents' = r.value
                  /\ pc' = IF r.value # <<>> THEN "show_prompt" ELSE "show_resolve"
                  /\ exc' = exc
    /\ query' = QueryOf(Some(season), Some(episode))
    /\ launches' = 0
    /\ launchedMagnet' = None
    \* continue_play of the previous iteration is dead
    /\ answer' = ""
    /\ UNCHANGED <<item, catalog, valid_seasons, episodes, season, episode,
                   selected_torrent, launchResult, nextEp, primaryCount,
                   ytsCalls, msg, call, ret>>

\* inquirer.List over the batch plus the "None" entry
ShowPrompt ==
    /\ pc = "show_prompt"
    /\ \E i \in 1 .. Len(torrent_choices(torrents)) :
          /\ selected_torrent' = torrent_choices(torrents)[i]
          /\ pc' = AfterPrompt(selected_torrent', "show_launch", "show_resolve")
    /\ UNCHANGED <<item, catalog, valid_seasons, episodes, season, episode,
                   torrents, launchResult, nextEp, primaryCount, ytsCalls, exc,
                   msg, call, ret,
                   answer, launches, query, launchedMagnet>>

\* where the show flow goes after subprocess.run: the try's else branch on
\* success, the code after the if/else on either exception
ShowAfterLaunchRelaunch(res) ==
    IF res = "success" THEN "show_resolve_played"
    ELSE IF launches = 0 THEN "show_launch" ELSE "show_resolve"
ShowAfterLaunch(res) == IF res = "success" THEN "show_resolve_played" ELSE "show_resolve"

ShowLaunch ==
    /\ pc = "show_launch"
    /\ \E res \in LaunchResults :
          /\ launchResult' = res
          /\ pc' = ShowAfterLaunch(res)
    /\ launches' = launches + 1
    /\ launchedMagnet' = MagnetOf(selected_torrent)
    /\ UNCHANGED <<item, catalog, valid_seasons, episodes, season, episode,
                   torrents, selected_torrent, nextEp, primaryCount, ytsCalls,
                   exc, msg, call, ret,
                   answer, query>>

\* where the show flow goes once fetch_next_episode returned next
ShowAfterResolveAlwaysPrompt(next, promptPc) == promptPc
ShowAfterResolve(next, promptPc) == IF next # None THEN promptPc ELSE "done"

\* the same without `season, episode = next_episode`
ResolveKeepEpisode(promptPc, doneMsg) ==
    \E epKind \in FetchKinds, seasonsKind \in FetchKinds :
        LET next == fetch_next_episode(catalog, epKind, seasonsKind, season, episode)
        IN /\ nextEp' = next
           /\ UNCHANGED <<season, episode>>
           /\ pc' = ShowAfterResolve(next, promptPc)
           /\ msg' = IF next # None THEN msg ELSE doneMsg

\* next_episode = fetch_next_episode(...); if next_episode: season, episode =
\* next_episode
Resolve(promptPc, doneMsg) ==
    \E epKind \in FetchKinds, seasonsKind \in FetchKinds :
        LET next == fetch_next_episode(catalog, epKind, seasonsKind, season, episode)
        IN /\ nextEp' = next
           /\ season' = IF next # None THEN next[1] ELSE season
           /\ episode' = IF next # None THEN next[2] ELSE episode
           /\ pc' = ShowAfterResolve(next, promptPc)
           /\ msg' = IF next # None THEN msg ELSE doneMsg

\* after a successful playback
ShowResolvePlayed ==
    /\ pc = "show_resolve_played"
    /\ Resolve("next_prompt_played", "no_more_episodes")
    /\ UNCHANGED <<item, catalog, valid_seasons, episodes, torrents,
                   selected_torrent, launchResult, primaryCount, ytsCalls, exc,
                   call, ret,
                   answer, launches, query, launchedMagnet>>

\* "Play next episode (SxxEyy)? (y/n)", default "y"
NextPromptPlayed ==
    /\ pc = "next_prompt_played"
    /\ \E input \in PromptInputs :
        LET continue_play == Ask(input, NextPlayedDefault) IN
          /\ answer' = input
          /\ pc' = IF continue_play = "y" THEN "show_search" ELSE "done"
          /\ msg' = IF continue_play = "y" THEN msg ELSE "no_more_episodes"
          \* on `continue` the batch and the selection of this iteration are
          \* dead: the next iteration assigns them before reading them
          /\ torrents' = IF continue_play = "y" THEN <<>> ELSE torrents
          /\ selected_torrent' = IF continue_play = "y" THEN None ELSE selected_torrent
          /\ launchResult' = IF continue_play = "y" THEN "none" ELSE launchResult
          /\ launches' = IF continue_play = "y" THEN 0 ELSE launches
          /\ launchedMagnet' = IF continue_play = "y" THEN None ELSE launchedMagnet
    /\ UNCHANGED <<item, catalog, valid_seasons, episodes, season, episode,
                   nextEp, primaryCount, ytsCalls, exc, call, ret,
                   query>>

\* after no torrents, the "None" entry, or a failed launch
ShowResolve ==
    /\ pc = "show_resolve"
    /\ Resolve("next_prompt_failed", "no_more_episodes_or_torrents")
    /\ UNCHANGED <<item, catalog, valid_seasons, episodes, torrents,
                   selected_torrent, launchResult, primaryCount, ytsCalls, exc,
                   call, ret,
                   answer, launches, query, launchedMagnet>>

\* "No torrent found. Try next episode (SxxEyy)? (y/n)", default "n"
NextPromptFailed ==
    /\ pc = "next_prompt_failed"
    /\ \E input \in PromptInputs :
        LET continue_play == Ask(input, NextFailedDefault) IN
          /\ answer' = input
          /\ pc' = IF continue_play = "y" THEN "show_search" ELSE "done"
          /\ msg' = IF continue_play = "y" THEN msg ELSE "no_more_episodes_or_torrents"
          \* on `continue` the batch and the selection of this iteration are
          \* dead: the next iteration assigns them before reading them
          /\ torrents' = IF continue_play = "y" THEN <<>> ELSE torrents
          /\ selected_torrent' = IF continue_play = "y" THEN None ELSE selected_torrent
          /\ launchResult' = IF continue_play = "y" THEN "none" ELSE launchResult
          /\ launches' = IF continue_play = "y" THEN 0 ELSE launches
          /\ launchedMagnet' = IF continue_play = "y" THEN None ELSE launchedMagnet
    /\ UNCHANGED <<item, catalog, valid_seasons, episodes, season, episode,
                   nextEp, primaryCount, ytsCalls, exc, call, ret,
                   query>>

Next ==
    \/ MainMenuSelectMovie
    \/ MainMenuSelectShow
    \/ MainMenuExit
    \/ ReturnToMenu
    \/ MovieSearchApibay
    \/ MoviePrompt
    \/ MovieLaunch
    \/ MovieSearchYts
    \/ MovieYtsPrompt
    \/ MovieYtsLaunch
    \/ ShowFetchSeasons
    \/ SeasonPrompt
    \/ ShowFetchEpisodes
    \/ RetryPrompt
    \/ EpisodePrompt
    \/ ShowSearch
    \/ ShowPrompt
    \/ ShowLaunch
    \/ ShowResolvePlayed
    \/ NextPromptPlayed
    \/ ShowResolve
    \/ NextPromptFailed

Spec == Init /\ [][Next]_vars

-----------------------------------------------------------------------------
(* The scoring of spec section 4.1, in thousandths; main.py has no scoring *)

\* the characters of the torrent names used above
NameChars(name) ==
    CASE name = "n" -> <<"T", ".", "7", "2", "0", "p">>
      [] name = "n.2160p" -> <<"T", ".", "2", "1", "6", "0", "p">>
      [] OTHER -> <<>>

\* the characters of a candidate's name; a YTS name is "{title} ({quality})"
CandChars(c) ==
    IF c.source = "YTS"
    THEN <<c.name[1], " ", "(", "1", "0", "8", "0", "p", ")">>
    ELSE NameChars(c.name)

LowerChar(ch) ==
    CASE ch = "T" -> "t" [] ch = "S" -> "s" [] ch = "E" -> "e" [] ch = "K" -> "k"
      [] ch = "P" -> "p" [] OTHER -> ch

\* str.lower()
Lower(chars) == [i \in 1 .. Len(chars) |-> LowerChar(chars[i])]

\* needle in hay (substring)
Contains(hay, needle) ==
    \E i \in 0 .. (Len(hay) - Len(needle)) :
        SubSeq(hay, i + 1, i + Len(needle)) = needle

\* quality: first match of "4k"/"2160p", "1080p", "720p", case-insensitive
QualityScore(chars) ==
    LET l == Lower(chars)
    IN IF Contains(l, <<"4", "k">>) \/ Contains(l, <<"2", "1", "6", "0", "p">>)
       THEN 1000
       ELSE IF Contains(l, <<"1", "0", "8", "0", "p">>) THEN 800
       ELSE IF Contains(l, <<"7", "2", "0", "p">>) THEN 600
       ELSE 300

\* seeders: min(seeders / max_seeders_in_batch, 1.0), 0 when the maximum is 0
SeedersScore(n, maxSeeders) ==
    IF maxSeeders = 0 THEN 0
    ELSE IF n >= maxSeeders THEN 1000
    ELSE (1000 * n) \div maxSeeders

\* season_episode_match: 1.0 on "S{season:02}E{episode:02}", 0.5 on
\* "S{season:02}" alone, 0.0 otherwise and whenever season or episode is unset
SeasonEpisodeMatchSeasonOnly(s, e, chars) ==
    IF s = None \/ e = None THEN 0
    ELSE IF Contains(chars, <<"S">> \o Format02d(s[1])) THEN 1000
    ELSE 0
SeasonEpisodeMatch(s, e, chars) ==
    IF s = None \/ e = None THEN 0
    ELSE IF Contains(chars, <<"S">> \o Format02d(s[1]) \o <<"E">> \o Format02d(e[1]))
    THEN 1000
    ELSE IF Contains(chars, <<"S">> \o Format02d(s[1])) THEN 500
    ELSE 0

\* name_similarity, as far as the spec fixes it: 1.0 for a name that holds the
\* whole title, case-insensitively
NameSimilarity(title, chars) ==
    IF Contains(Lower(chars), Lower(<<title>>)) THEN 1000 ELSE 0

MaxSeeders(cs) ==
    IF cs = <<>> THEN 0
    ELSE CHOOSE m \in {cs[i].seeders : i \in 1 .. Len(cs)} :
            \A i \in 1 .. Len(cs) : cs[i].seeders <= m

\* 0.5 name + 0.3 quality + 0.2 seeders + 0.2 season/episode, times 10000
Score(c, batch, q) ==
    5 * NameSimilarity(Title, CandChars(c))
    + 3 * QualityScore(CandChars(c))
    + 2 * SeedersScore(c.seeders, MaxSeeders(batch))
    + 2 * SeasonEpisodeMatch(q.args[1], q.args[2], CandChars(c))

-----------------------------------------------------------------------------
(* The functions applied to drawn inputs *)

\* the sequences over S that have more than five and at most MaxLong members
LongSeqs(S) == {q \in SeqsUpTo(S, MaxLong) : Len(q) > 5}

\* Apibay payloads of more than five well-formed records
LongApibayReplies ==
    [kind : {"OK"},
     payload : LongSeqs([id : {"1"}, seeders : {"4", "5", "7", "9"},
                         info_hash : {"h1"}, name : {"n"}])]

\* YTS payloads of more than five torrents, in one movie or split over two
LongYtsReplies ==
    UNION {{[kind |-> "OK",
             payload |-> <<[title |-> "T", torrents |-> SubSeq(ts, 1, k)],
                           [title |-> "T",
                            torrents |-> SubSeq(ts, k + 1, Len(ts))]>>] :
               k \in {3, Len(ts)}} :
           ts \in LongSeqs(YtsTorrents)}

CallGetTorrents ==
    /\ call = NoCall
    /\ \E reply \in ApibayReplies \cup LongApibayReplies :
          /\ call' = [fn |-> "get_torrents", arg |-> reply]
          /\ ret' = [out |-> get_torrents(reply),
                     attempts |-> HttpAttempts(reply.kind)]
    /\ UNCHANGED sessionVars

CallGetYtsTorrents ==
    /\ call = NoCall
    /\ \E reply \in YtsReplies \cup LongYtsReplies :
          /\ call' = [fn |-> "get_yts_torrents", arg |-> reply]
          /\ ret' = [out |-> get_yts_torrents(reply),
                     attempts |-> HttpAttempts(reply.kind)]
    /\ UNCHANGED sessionVars

CallFetchShowSeasons ==
    /\ call = NoCall
    /\ \E kind \in ReplyKinds, payload \in SeasonLists(MaxSeason) :
          /\ kind # "OK" => payload = <<>>
          /\ call' = [fn |-> "fetch_show_seasons",
                      arg |-> [kind |-> kind, payload |-> payload]]
          /\ ret' = [out |-> fetch_catalog(kind, payload),
                     attempts |-> HttpAttempts(kind)]
    /\ UNCHANGED sessionVars

CallFetchSeasonEpisodes ==
    /\ call = NoCall
    /\ \E kind \in ReplyKinds, payload \in EpisodeLists :
          /\ kind # "OK" => payload = <<>>
          /\ call' = [fn |-> "fetch_season_episodes",
                      arg |-> [kind |-> kind, payload |-> payload]]
          /\ ret' = [out |-> fetch_catalog(kind, payload),
                     attempts |-> HttpAttempts(kind)]
    /\ UNCHANGED sessionVars

\* fetch_next_episode on the lists its two fetches returned
CallFetchNextEpisode ==
    /\ call = NoCall
    /\ \E eps \in EpisodeListsUpTo(MaxCallEp),
           seasons \in SeasonLists(MaxSeason + 1),
           s \in SeasonNumbers, e \in 1 .. MaxCallEp :
          /\ call' = [fn |-> "fetch_next_episode",
                      arg |-> [episodes |-> eps, seasons |-> seasons,
                               season |-> s, episode |-> e]]
          /\ ret' = [out |-> Return(next_episode(eps, seasons, s, e)),
                     attempts |-> 0]
    /\ UNCHANGED sessionVars

\* the characters of the names season_episode_match is applied to
NameAlphabet == {"S", "E", "0", "1"}

OptionalOf(S) == {None} \cup {Some(x) : x \in S}

CallSeasonEpisodeMatch ==
    /\ call = NoCall
    /\ \E s \in OptionalOf(SeasonNumbers), e \in OptionalOf(1 .. MaxEp),
           chars \in SeqsUpTo(NameAlphabet, MaxNameLen) :
          /\ call' = [fn |-> "season_episode_match",
                      arg |-> [season |-> s, episode |-> e, name |-> chars]]
          /\ ret' = [out |-> Return(SeasonEpisodeMatch(s, e, chars)),
                     attempts |-> 0]
    /\ UNCHANGED sessionVars

\* the call is over; the next one starts afresh
CallDone ==
    /\ call # NoCall
    /\ call' = NoCall
    /\ ret' = NoRet
    /\ UNCHANGED sessionVars

NextCalls ==
    \/ CallDone
    \/ CallSeasonEpisodeMatch
    \/ CallGetTorrents
    \/ CallGetYtsTorrents
    \/ CallFetchShowSeasons
    \/ CallFetchSeasonEpisodes
    \/ CallFetchNextEpisode

SpecCalls == Init /\ [][NextCalls]_vars

-----------------------------------------------------------------------------
(* Properties *)

Providers == {"get_torrents", "get_yts_torrents"}

\* number of entries of q that satisfy Test
CountIf(q, Test(_)) == Len(SelectSeq(q, Test))

RECURSIVE YtsSeeds(_)
\* the seeds of every torrent of every movie of a YTS payload, in order
YtsSeeds(movies) ==
    IF movies = <<>> THEN <<>>
    ELSE LET ts == Head(movies).torrents
         IN [i \in 1 .. Len(ts) |-> ts[i].seeds] \o YtsSeeds(Tail(movies))

\* the provider call returned normally on a decoded payload that the
\* "no results" marker did not empty
ProviderFiltered ==
    /\ call.fn \in Providers
    /\ call.arg.kind = "OK"
    /\ ret.out.raised = ""
    /\ call.arg.payload # <<>>
    /\ call.fn = "get_torrents" => call.arg.payload[1].id # "0"

\* how many records of the payload carry exactly the threshold
AtThresholdInPayload ==
    LET RecAt(t) == int(SeedersOf(t)) = MIN_SEEDERS_THRESHOLD
        SeedAt(n) == n = MIN_SEEDERS_THRESHOLD
    IN IF call.fn = "get_torrents" THEN CountIf(call.arg.payload, RecAt)
       ELSE CountIf(YtsSeeds(call.arg.payload), SeedAt)

AtThresholdInResult ==
    LET CandAt(c) == c.seeders = MIN_SEEDERS_THRESHOLD
    IN CountIf(ret.out.value, CandAt)

\* C1: a provider call returns no candidate with fewer than
\* MIN_SEEDERS_THRESHOLD (5) seeders, and the filter keeps every record whose
\* seeder count is exactly the threshold (as long as the five-entry cut does
\* not apply).
C1_ThresholdFilter ==
    /\ call.fn \in Providers =>
          \A i \in 1 .. Len(ret.out.value) :
              ret.out.value[i].seeders >= MIN_SEEDERS_THRESHOLD
    /\ (ProviderFiltered /\ Len(ret.out.value) < 5) =>
          AtThresholdInResult = AtThresholdInPayload

\* a reply with one record at the threshold and one below it: exactly the
\* first is returned
C1_Witness ==
    /\ call.fn = "get_torrents"
    /\ ProviderFiltered
    /\ Len(call.arg.payload) = 2
    /\ SeedersOf(call.arg.payload[1]) = "4"
    /\ SeedersOf(call.arg.payload[2]) = "5"
    /\ Len(ret.out.value) = 1
    /\ ret.out.value[1].seeders = 5

\* C2: in one play_content call the secondary provider is never queried for
\* a show; for a movie whose primary query returned no candidate it is queried
\* exactly once (not yet while the query is pending, once ever after).
C2_SecondaryFallback ==
    /\ item.media_type = "show" => ytsCalls = 0
    /\ ytsCalls <= 1
    /\ (item.media_type = "movie" /\ primaryCount = 0) =>
          IF pc = "movie_yts" THEN ytsCalls = 0 ELSE ytsCalls = 1

\* a movie whose primary query came back empty, after play_content returned
C2_Witness ==
    /\ item.media_type = "movie"
    /\ primaryCount = 0
    /\ pc = "done"
    /\ ytsCalls = 1

\* what the claim says fetch_next_episode returns
NextByClaim(eps, seasons, s, e) ==
    IF InSeq(e + 1, eps) THEN <<s, e + 1>>
    ELSE IF \E i \in 1 .. Len(seasons) :
                seasons[i].number = s + 1 /\ seasons[i].episode_count > 0
         THEN <<s + 1, 1>>
    ELSE None

\* C3 as stated: for every episode list and seasons list, fetch_next_episode
\* returns (S, E+1) when E+1 is in the list, else (S+1, 1) when season S+1 has
\* episodes, else none.
C3_AsStated ==
    call.fn = "fetch_next_episode" =>
        ret.out.value = NextByClaim(call.arg.episodes, call.arg.seasons,
                                    call.arg.season, call.arg.episode)

\* C3 amended: the same, when the episode list fetched for season S is not
\* empty; on an empty episode list fetch_next_episode returns none whatever
\* the seasons list holds.
C3_NextEpisode ==
    call.fn = "fetch_next_episode" =>
        ret.out.value =
            IF call.arg.episodes = <<>> THEN None
            ELSE NextByClaim(call.arg.episodes, call.arg.seasons,
                             call.arg.season, call.arg.episode)

\* episodes [1,2,3], current episode 3, season S+1 has episodes: (S+1, 1)
C3_Witness ==
    /\ call.fn = "fetch_next_episode"
    /\ call.arg.episodes = <<1, 2, 3>>
    /\ call.arg.episode = 3
    /\ \E i \in 1 .. Len(call.arg.seasons) :
          /\ call.arg.seasons[i].number = call.arg.season + 1
          /\ call.arg.seasons[i].episode_count > 0
    /\ ret.out.value = <<call.arg.season + 1, 1>>

\* the current episode is the last one of the last season of the catalog
LastOfLast ==
    /\ ~InSeq(episode + 1, catalog.episodes[season])
    /\ ~\E i \in 1 .. Len(catalog.seasons) :
          /\ catalog.seasons[i].number = season + 1
          /\ catalog.seasons[i].episode_count > 0

\* C4: when the current episode is the last of the last season, the
\* resolution after a play attempt (played or not) returns none and
\* play_content ends there: its next step is the return, so no prompt, no
\* provider query and no launch follows.
C4_LastEpisodeTerminates ==
    [][/\ (pc \in {"show_resolve", "show_resolve_played"} /\ LastOfLast)
            => (nextEp' = None /\ pc' = "done"
                /\ season' = season /\ episode' = episode)
       /\ pc = "done" => pc' = "menu"]_vars

\* a show played to the end of its last season
C4_Witness ==
    /\ item.media_type = "show"
    /\ pc = "done"
    /\ launchResult = "success"
    /\ nextEp = None
    /\ msg = "no_more_episodes"
    /\ LastOfLast

\* C5 as stated: a launch that fails with FileNotFoundError ends the
\* session at once, without advancing the episode.
C5_AsStated ==
    [][(pc \in {"movie_launch", "movie_yts_launch", "show_launch"}
        /\ launchResult' = "FileNotFoundError")
       => pc' = "done"]_vars

\* C6: a provider call that meets a connection error, a timeout, a non-2xx
\* status or an undecodable body returns an empty list and does not raise.
C6_FailureIsEmpty ==
    (call.fn \in Providers /\ call.arg.kind # "OK") =>
        (ret.out.raised = "" /\ ret.out.value = <<>>)

\* the secondary provider got a timeout and returned []
C6_Witness ==
    /\ call.fn = "get_yts_torrents"
    /\ call.arg.kind = "Timeout"
    /\ ret.out = Return(<<>>)

\* C7 as stated: a decoded payload with a record that lacks a field or has a
\* non-numeric seeders value never makes play_content abort with an
\* unhandled exception.
C7_AsStated == ~(pc = "crashed" /\ exc \in {"KeyError", "ValueError"})

\* C8 as stated: seeding the season prompt with the item's trending season
\* (season 1 when it has none) completes without error for every show with a
\* valid season.
C8_AsStated == ~(pc = "crashed" /\ exc = "IndexError")

Transient == {"HTTP429", "HTTP500"}

HttpCalls == {"get_torrents", "get_yts_torrents", "fetch_show_seasons",
              "fetch_season_episodes"}

C10_AsStated ==
    (item.media_type = "movie" /\ primaryCount > 0) => ytsCalls = 0

\* C10 amended: when the primary returned at least one candidate, the
\* secondary provider is queried only after the user picked the
\* "None (Try YTS)" entry or the launch failed with FileNotFoundError; after a
\* successful launch or a CalledProcessError it is never queried.
C10_SecondaryOnlyAfter ==
    (item.media_type = "movie" /\ primaryCount > 0) =>
        /\ pc \in {"movie_prompt", "movie_launch"} => ytsCalls = 0
        /\ pc = "movie_yts" =>
              (selected_torrent = None \/ launchResult = "FileNotFoundError")
        /\ (/\ selected_torrent # None
            /\ selected_torrent[1].source = "Apibay"
            /\ launchResult \in {"success", "CalledProcessError"})
           => (pc = "done" /\ ytsCalls = 0)

\* the chosen Apibay torrent failed with CalledProcessError: play_content
\* returned without a YTS query
C10_Witness ==
    /\ item.media_type = "movie"
    /\ primaryCount > 0
    /\ pc = "done"
    /\ selected_torrent # None
    /\ launchResult = "CalledProcessError"
    /\ ytsCalls = 0

\* C11: when a next episode exists the sequencer asks before it continues;
\* after a successful playback Enter alone continues (default "y"), after an
\* attempt without a played torrent Enter alone stops (default "n"); the next
\* search happens only on an affirmative answer.
C11_PromptDefaults ==
    [][/\ pc' = "show_search" =>
             pc \in {"episode_prompt", "next_prompt_played", "next_prompt_failed"}
       /\ (pc = "show_resolve_played" /\ nextEp' # None) => pc' = "next_prompt_played"
       /\ (pc = "show_resolve" /\ nextEp' # None) => pc' = "next_prompt_failed"
       /\ pc = "next_prompt_played" =>
             /\ launchResult = "success"
             /\ pc' = IF answer' \in {"y", ""} THEN "show_search" ELSE "done"
       /\ pc = "next_prompt_failed" =>
             /\ launchResult # "success"
             /\ pc' = IF answer' = "y" THEN "show_search" ELSE "done"]_vars

\* the user pressed Enter at a next-episode prompt and the sequencer went on:
\* this was the prompt after a successful playback
C11_Witness ==
    /\ pc = "show_search"
    /\ nextEp # None
    /\ answer = ""

PromptPcs == {"movie_prompt", "movie_yts_prompt", "show_prompt"}
LaunchPcs == {"movie_launch", "movie_yts_launch", "show_launch"}

\* C12: the player is launched only on a torrent the user picked at the
\* torrent prompt of the current batch (movie flow, first episode and every
\* chained episode); picking the "None" entry launches nothing for that batch.
C12_LaunchOnlyOnChoice ==
    /\ [](/\ pc \in LaunchPcs =>
                (selected_torrent # None /\ InSeq(selected_torrent[1], torrents))
          /\ selected_torrent = None => launches = 0)
    /\ [][/\ launches' > launches =>
                /\ pc \in LaunchPcs
                /\ launchedMagnet' = Some(selected_torrent[1].magnet)
          /\ pc' \in LaunchPcs => (pc \in PromptPcs /\ selected_torrent' # None)
          /\ (pc \in PromptPcs /\ selected_torrent' = None) =>
                (pc' \notin LaunchPcs /\ launches' = launches)]_vars

\* a chained episode was played: its torrent was picked at the prompt of the
\* batch searched for that episode
C12_Witness ==
    /\ pc = "show_resolve_played"
    /\ nextEp = <<season, episode>>
    /\ launches = 1
    /\ selected_torrent # None
    /\ launchedMagnet = Some(selected_torrent[1].magnet)

ReadsAt(chars, i, pat) ==
    /\ i + Len(pat) - 1 <= Len(chars)
    /\ \A k \in 1 .. Len(pat) : chars[i + k - 1] = pat[k]

\* "S{season:02}" and "E{episode:02}" of the call
SeasonTag == <<"S">> \o Format02d(call.arg.season[1])
EpisodeTag == <<"E">> \o Format02d(call.arg.episode[1])

\* C14: season_episode_match is 1.0 when season and episode are set and the
\* name holds "S{season:02}E{episode:02}", 0.5 when both are set and the name
\* holds "S{season:02}" but not the full pattern, and 0.0 otherwise, also
\* whenever season or episode is unset (values in thousandths).
C14_SeasonEpisodeMatch ==
    call.fn = "season_episode_match" =>
        LET n == call.arg.name
            unset == call.arg.season = None \/ call.arg.episode = None
            full == \E i \in 1 .. Len(n) : ReadsAt(n, i, SeasonTag \o EpisodeTag)
            seasonOnly == \E i \in 1 .. Len(n) : ReadsAt(n, i, SeasonTag)
        IN ret.out.value =
              IF unset THEN 0
              ELSE IF full THEN 1000
              ELSE IF seasonOnly THEN 500
              ELSE 0

\* season 1, episode 1 and a name that holds "S01" followed by another
\* episode: 0.5
C14_Witness ==
    /\ call.fn = "season_episode_match"
    /\ call.arg.season = Some(1)
    /\ call.arg.episode = Some(1)
    /\ call.arg.name = <<"S", "0", "1", "E", "1", "0">>
    /\ ret.out.value = 500

\* the play attempt's query went out and its batch is being handled
ShowQueriedPcs == {"show_prompt", "show_launch"}

\* C15 as stated: the query of a play attempt is
\* "{title} S{season:02}E{episode:02}" for the current season and episode,
\* for every season number >= 0 offered as a valid season.
C15_AsStated ==
    pc \in ShowQueriedPcs =>
        /\ query.args = <<Some(season), Some(episode)>>
        /\ query.text = <<Title, " ", "S">> \o Format02d(season)
                            \o <<"E">> \o Format02d(episode)

\* the season numbers the catalog lists with a nonzero episode_count
SeasonsWithEpisodes ==
    {catalog.seasons[i].number :
        i \in {j \in 1 .. Len(catalog.seasons) : catalog.seasons[j].episode_count # 0}}

\* nothing of a play attempt or of a season choice happens in this step
NothingPlayed ==
    UNCHANGED <<season, episode, episodes, query, torrents, selected_torrent,
                launches, launchedMagnet, launchResult, primaryCount, ytsCalls>>

\* C16: the season prompt offers exactly the seasons whose episode_count is
\* nonzero, each once; when the seasons fetch yields no such season (an empty
\* list after a failed fetch included) the flow ends with the "no seasons"
\* message, and that step prompts, fetches episodes, queries and launches
\* nothing.
C16_SeasonChoice ==
    /\ [](pc = "season_prompt" =>
            /\ {valid_seasons[i] : i \in 1 .. Len(valid_seasons)} = SeasonsWithEpisodes
            /\ Len(valid_seasons) = Cardinality(SeasonsWithEpisodes))
    /\ [][pc = "show_seasons" =>
            /\ SeasonsWithEpisodes = {} => pc' = "done"
            /\ pc' \in {"season_prompt", "done", "crashed"}
            /\ pc' = "done" => msg' = "no_valid_seasons" /\ NothingPlayed]_vars

\* a season without episodes is listed next to one with episodes, and only
\* the latter is offered
C16_Witness ==
    /\ pc = "season_prompt"
    /\ Len(catalog.seasons) = 2
    /\ catalog.seasons[1].episode_count = 0
    /\ valid_seasons = <<catalog.seasons[2].number>>

\* C17: when the episode list of the chosen season is empty the retry prompt
\* follows; "y" (also by default) goes back to the seasons fetch, "n" ends the
\* flow, and neither step queries a provider or launches the player.
C17_SeasonRetry ==
    /\ [](pc = "retry_prompt" => episodes = <<>>)
    /\ [](pc = "episode_prompt" => episodes # <<>>)
    /\ [][/\ pc = "show_episodes" =>
                /\ pc' = IF episodes' = <<>> THEN "retry_prompt" ELSE "episode_prompt"
                /\ UNCHANGED <<query, torrents, launches, launchedMagnet>>
          /\ pc = "retry_prompt" =>
                /\ pc' = IF answer' \in {"y", ""} THEN "show_seasons" ELSE "done"
                /\ UNCHANGED <<query, torrents, launches, launchedMagnet,
                               season, episodes>>]_vars

\* the user asked for another season after an empty episode list
C17_Witness ==
    /\ pc = "show_seasons"
    /\ season \in SeasonNumbers
    /\ episodes = <<>>
    /\ answer = "y"

\* the seeder counts of the records of the payload, in payload order
PayloadSeeders ==
    IF call.fn = "get_torrents"
    THEN [i \in 1 .. Len(call.arg.payload) |-> int(SeedersOf(call.arg.payload[i]))]
    ELSE YtsSeeds(call.arg.payload)

Min(a, b) == IF a < b THEN a ELSE b

\* C18: the list a provider call returns is sorted by seeders, non-increasing,
\* and has at most 5 entries; they are the 5 highest-seeded viable records of
\* the response: for every seeder count k from the threshold up, the list
\* holds as many entries with at least k seeders as the response has records
\* with at least k, up to 5.
C18_SortedTopFive ==
    call.fn \in Providers =>
        LET r == ret.out.value
        IN /\ Len(r) <= 5
           /\ \A i, j \in 1 .. Len(r) : i < j => r[i].seeders >= r[j].seeders
           /\ ProviderFiltered =>
                 \A k \in {n \in {MIN_SEEDERS_THRESHOLD}
                               \cup {PayloadSeeders[i] : i \in 1 .. Len(PayloadSeeders)} :
                            n >= MIN_SEEDERS_THRESHOLD} :
                     LET CandAtLeast(c) == c.seeders >= k
                         SeedAtLeast(n) == n >= k
                     IN CountIf(r, CandAtLeast)
                           = Min(5, CountIf(PayloadSeeders, SeedAtLeast))

\* six viable records, the best seeded one last: it comes first in the list
\* and one record with the fewest seeders is cut
C18_Witness ==
    /\ call.fn = "get_torrents"
    /\ Len(call.arg.payload) = 6
    /\ \A i \in 1 .. 5 : SeedersOf(call.arg.payload[i]) \in {"5", "7"}
    /\ SeedersOf(call.arg.payload[1]) = "5"
    /\ SeedersOf(call.arg.payload[6]) = "9"
    /\ Len(ret.out.value) = 5
    /\ ret.out.value[1].seeders = 9

\* the inner `while True` of the show flow
PlayLoopPcs ==
    {"show_search", "show_prompt", "show_launch", "show_resolve",
     "show_resolve_played", "next_prompt_played", "next_prompt_failed"}

\* a comes before b in lexicographic order
LexLess(a, b) == a[1] < b[1] \/ (a[1] = b[1] /\ a[2] < b[2])

\* the (season, episode) the latest get_torrents call was made for
LastQueried == <<query.args[1][1], query.args[2][1]>>

\* C19: in the play loop (season, episode) changes only to the pair
\* fetch_next_episode returned, which is (S, E+1) or (S+1, 1) and so strictly
\* greater in lexicographic order; every further play attempt is made for a
\* pair strictly greater than the one queried before; and the pair stays
\* among the seasons the catalog lists with episodes and the episode numbers
\* 1..MaxEp, a finite set, so the loop ends after finitely many attempts.
C19_PlayLoopProgress ==
    /\ [](pc \in PlayLoopPcs =>
            /\ season \in SeasonsWithEpisodes
            /\ episode \in 1 .. MaxEp)
    /\ [][(pc \in PlayLoopPcs) =>
            /\ (pc \in {"show_resolve", "show_resolve_played"} /\ nextEp' # None) =>
                  /\ <<season', episode'>> = nextEp'
                  /\ nextEp' \in {<<season, episode + 1>>, <<season + 1, 1>>}
                  /\ LexLess(<<season, episode>>, <<season', episode'>>)
                  /\ pc' \in {"next_prompt_played", "next_prompt_failed"}
            /\ (pc \notin {"show_resolve", "show_resolve_played"} \/ nextEp' = None) =>
                  (pc' \in PlayLoopPcs => UNCHANGED <<season, episode>>)
            /\ pc' = "show_search" =>
                  /\ pc \in {"next_prompt_played", "next_prompt_failed"}
                  /\ LexLess(LastQueried, <<season', episode'>>)]_vars

\* the loop went on from the last episode of season 0 to the first of season 1
C19_Witness ==
    /\ pc = "show_search"
    /\ query.args = <<Some(0), Some(MaxEp)>>
    /\ <<season, episode>> = <<1, 1>>

\* C20: the player is launched at most once per provider query; the magnet it
\* gets is that of a candidate of the batch the latest query returned, with
\* at least MIN_SEEDERS_THRESHOLD seeders; and in the show flow that query was
\* made by get_torrents(title, season, episode) for the current season and
\* episode.
C20_LaunchFromLatestBatch ==
    /\ [](/\ launches <= 1
          /\ launches = 1 =>
                \E i \in 1 .. Len(torrents) :
                    /\ launchedMagnet = Some(torrents[i].magnet)
                    /\ torrents[i].seeders >= MIN_SEEDERS_THRESHOLD
          /\ pc \in {"show_prompt", "show_launch"} =>
                query.args = <<Some(season), Some(episode)>>)
    /\ [][(pc \in LaunchPcs) =>
            /\ launches = 0 /\ launches' = 1
            /\ UNCHANGED <<torrents, query, season, episode>>]_vars

\* the secondary provider's batch replaced the primary one after a failed
\* launch, and the player was launched on a candidate of the new batch
C20_Witness ==
    /\ pc = "done"
    /\ ytsCalls = 1
    /\ launches = 1
    /\ launchResult = "success"
    /\ \E i \in 1 .. Len(torrents) :
          /\ torrents[i].source = "YTS"
          /\ launchedMagnet = Some(torrents[i].magnet)

====
